---- MODULE Spec2Model ----
(***************************************************************************)
(* Model of game-kj's module registry and lifecycle orchestrator           *)
(* (internal/core/module/module.go), of the logger's global state          *)
(* (internal/core/log/log.go) and of the host process (cmd main).          *)
(*                                                                         *)
(* Spec     : a client drives the package API in any order                 *)
(*            (RegisterModule, CreateModuleMgr, mgr.Init/Start/Stop).      *)
(* SpecMain : the host process main() drives it, with OS signals.          *)
(***************************************************************************)
EXTENDS Naturals, Sequences, FiniteSets

\* ---------------------------------------------------------------- bounds
MaxModules == 2   \* RegisterModule calls
MaxOps     == 2   \* calls of mgr.Init / mgr.Start / mgr.Stop by a client
MaxSignals == 2   \* SIGINT/SIGTERM deliveries during one process run

Names == {"a", "b"}   \* values of Module.Name()

\* ------------------------------------------------- ModuleState constants
ModuleStateRegistered  == 0
ModuleStateInitialized == 1
ModuleStateCfgLoaded   == 2
ModuleStateStarted     == 3
ModuleStateStopped     == 4

VARIABLES
    moduleInstance,  \* the package-level slice: Seq of moduleInfo records
    modules,         \* moduleMgr.modules: name -> index into moduleInstance
    mgrBuilt,        \* CreateModuleMgr has returned the orchestrator
    logger,          \* log.logger: "nil" or "set"
    onceDone,        \* log.once has run its function
    lastOp,          \* the operation that ran last
    lastErr,         \* the error value the last operation returned
    ops,             \* the orchestrator operations invoked so far, in order
    calls,           \* the module method calls made by the last operation
    logs,            \* the log lines emitted by the last operation
    received,        \* per record: how often each method has been called,
                     \* and whether one of the calls returned an error
    pc,              \* main()'s position ("api": no host process)
    defers,          \* main()'s stack of deferred calls, top last
    notified,        \* signal.Notify(sigChan, ...) is installed
    sigChan,         \* number of signals buffered in sigChan (capacity 1)
    sigSent,         \* signals the OS has delivered to the process
    sigTaken,        \* the select took a signal from sigChan
    ctxDone,         \* ctx has been cancelled
    synced           \* number of logger.Sync() calls made by log.Close

vars == <<moduleInstance, modules, mgrBuilt, logger, onceDone, lastOp, lastErr,
          ops, calls, logs, received, pc, defers, notified, sigChan, sigSent,
          sigTaken, ctxDone, synced>>

modVars  == <<moduleInstance, modules, mgrBuilt, ops, calls, logs, received, lastOp, lastErr>>
logVars  == <<logger, onceDone>>
mainVars == <<pc, defers, notified, sigChan, sigSent, sigTaken, ctxDone, synced>>

\* ---------------------------------------------------------------- helpers
NoCount == [Init |-> 0, LoadCfg |-> 0, Start |-> 0, Stop |-> 0, failed |-> FALSE]

\* One call of a Module method on record inst; err is what it returned.
Call(op, inst, err, arg) == [op |-> op, inst |-> inst, err |-> err, arg |-> arg]

\* The orders in which a range over a Go map may visit the key set S.
MapOrders(S) ==
    {f \in [1..Cardinality(S) -> S] : \A x \in S : \E k \in 1..Cardinality(S) : f[k] = x}

CountOf(cs, op, inst) == Cardinality({k \in DOMAIN cs : cs[k].op = op /\ cs[k].inst = inst})
ErrIn(cs, inst)       == \E k \in DOMAIN cs : cs[k].err /\ cs[k].inst = inst

\* received after the calls cs
Tally(cs) ==
    [i \in DOMAIN received |->
        [Init    |-> received[i].Init    + CountOf(cs, "Init", i),
         LoadCfg |-> received[i].LoadCfg + CountOf(cs, "LoadCfg", i),
         Start   |-> received[i].Start   + CountOf(cs, "Start", i),
         Stop    |-> received[i].Stop    + CountOf(cs, "Stop", i),
         failed  |-> received[i].failed \/ ErrIn(cs, i)]]

\* log.Info(msg, field): a line only when the logger exists
LogInfo(msg, name) ==
    IF logger = "nil" THEN <<>> ELSE <<[level |-> "info", msg |-> msg, name |-> name]>>

\* ------------------------------------------------------------ module.go
\* Faulty variant of NewModuleInfo: the record starts disabled
NewModuleInfoDisabled(nm) ==
    [name |-> nm, state |-> 0, isDisabled |-> TRUE, weight |-> 0]

\* RegisterModule(module): append &moduleInfo{Module: module, state: Registered};
\* isDisabled and weight keep Go's zero values.
NewModuleInfo(nm) ==
    [name |-> nm, state |-> ModuleStateRegistered, isDisabled |-> FALSE, weight |-> 0]

RegisterModule(nm) ==
    /\ Len(moduleInstance) < MaxModules
    /\ moduleInstance' = Append(moduleInstance, NewModuleInfo(nm))
    /\ received' = Append(received, NoCount)
    /\ lastOp' = "Register"
    /\ lastErr' = FALSE
    /\ calls' = <<>>
    /\ logs' = <<>>
    /\ UNCHANGED <<modules, mgrBuilt, ops>>

\* moduleInfo.isDisabled has no writer in module.go; the data model gives every
\* record an enabled flag that is decided before the orchestrator is built.
SetDisabled(i) ==
    /\ ~mgrBuilt
    /\ i \in DOMAIN moduleInstance
    /\ ~moduleInstance[i].isDisabled
    /\ moduleInstance' = [moduleInstance EXCEPT ![i].isDisabled = TRUE]
    /\ lastOp' = "SetDisabled"
    /\ lastErr' = FALSE
    /\ calls' = <<>>
    /\ logs' = <<>>
    /\ UNCHANGED <<modules, mgrBuilt, ops, received>>

\* Faulty variant of MapPut: the map keeps the record first registered under a name
MapPutIfAbsent(m, key, v) ==
    [x \in (DOMAIN m) \cup {key} |-> IF x \in DOMAIN m THEN m[x] ELSE v]

\* moduleMgr.modules[key] = v
MapPut(m, key, v) == [x \in (DOMAIN m) \cup {key} |-> IF x = key THEN v ELSE m[x]]

\* CreateModuleMgr's loop from record k on, m being the map built so far
RECURSIVE BuildModules(_, _)
BuildModules(k, m) ==
    IF k > Len(moduleInstance) THEN m
    ELSE BuildModules(k + 1, MapPut(m, moduleInstance[k].name, k))

\* the log lines of CreateModuleMgr's loop: one log.Info per record
RECURSIVE BuildLogs(_)
BuildLogs(k) ==
    IF k > Len(moduleInstance) THEN <<>>
    ELSE LogInfo("register module", moduleInstance[k].name) \o BuildLogs(k + 1)

CreateModuleMgr ==
    /\ ~mgrBuilt
    /\ mgrBuilt' = TRUE
    /\ modules' = BuildModules(1, <<>>)
    /\ logs' = BuildLogs(1)
    /\ calls' = <<>>
    /\ ops' = Append(ops, "Create")
    /\ lastOp' = "Create"
    /\ lastErr' = FALSE
    /\ UNCHANGED <<moduleInstance, received>>

\* Faulty variant of InitCalls: Init and LoadCfg interleaved per record, in one pass
RECURSIVE InterleavedFrom(_, _, _)
InterleavedFrom(k, e1, e2) ==
    IF k > Len(moduleInstance) THEN <<>>
    ELSE <<Call("Init", k, e1[k], "-"), Call("LoadCfg", k, e2[k], "false")>>
         \o InterleavedFrom(k + 1, e1, e2)

InitCallsInterleaved(e1, e2) == InterleavedFrom(1, e1, e2)

\* Faulty variant of InitCalls: the second pass calls LoadCfg(true)
InitCallsReload(e1, e2) ==
    [k \in 1..Len(moduleInstance) |-> Call("Init", k, e1[k], "-")]
    \o [k \in 1..Len(moduleInstance) |-> Call("LoadCfg", k, e2[k], "true")]

\* moduleMgr.Init's calls: one pass of Init over moduleInstance, then one pass of
\* LoadCfg(false); e1[k] and e2[k] are the errors record k's methods return,
\* which the loops discard.
InitCalls(e1, e2) ==
    [k \in 1..Len(moduleInstance) |-> Call("Init", k, e1[k], "-")]
    \o [k \in 1..Len(moduleInstance) |-> Call("LoadCfg", k, e2[k], "false")]

\* Faulty variant of StartCalls: no isDisabled test
RECURSIVE StartCallsNoSkip(_, _, _)
StartCallsNoSkip(ord, k, errs) ==
    IF k > Len(ord) THEN <<>>
    ELSE LET i == modules[ord[k]] IN
         <<Call("Start", i, errs[i], "-")>> \o StartCallsNoSkip(ord, k + 1, errs)

\* Faulty variant of StartCalls: the loop returns at the first error
RECURSIVE StartCallsFailFast(_, _, _)
StartCallsFailFast(ord, k, errs) ==
    IF k > Len(ord) THEN <<>>
    ELSE LET i == modules[ord[k]] IN
         IF moduleInstance[i].isDisabled
         THEN StartCallsFailFast(ord, k + 1, errs)
         ELSE IF errs[i]
              THEN <<Call("Start", i, errs[i], "-")>>
              ELSE <<Call("Start", i, errs[i], "-")>> \o StartCallsFailFast(ord, k + 1, errs)

\* moduleMgr.Start's loop over the map in the order ord, from position k on
RECURSIVE StartCalls(_, _, _)
StartCalls(ord, k, errs) ==
    IF k > Len(ord) THEN <<>>
    ELSE LET i == modules[ord[k]] IN
         IF moduleInstance[i].isDisabled
         THEN StartCalls(ord, k + 1, errs)
         ELSE <<Call("Start", i, errs[i], "-")>> \o StartCalls(ord, k + 1, errs)

\* moduleMgr.Stop's loop over the map in the order ord, from position k on
RECURSIVE StopCalls(_, _, _)
StopCalls(ord, k, errs) ==
    IF k > Len(ord) THEN <<>>
    ELSE LET i == modules[ord[k]] IN
         <<Call("Stop", i, errs[i], "-")>> \o StopCalls(ord, k + 1, errs)

\* the records the map points at
Mapped == {modules[nm] : nm \in DOMAIN modules}

\* Faulty variant of Ran: the method also empties the map
RanClearsMap(op, cs) ==
    /\ calls' = cs
    /\ received' = Tally(cs)
    /\ logs' = <<>>
    /\ ops' = Append(ops, op)
    /\ lastOp' = op
    /\ lastErr' = FALSE
    /\ modules' = <<>>
    /\ UNCHANGED <<moduleInstance, mgrBuilt>>

\* what every orchestrator method leaves behind: the calls made; no log line, no
\* return value, no change of a record or of the map
Ran(op, cs) ==
    /\ calls' = cs
    /\ received' = Tally(cs)
    /\ logs' = <<>>
    /\ ops' = Append(ops, op)
    /\ lastOp' = op
    /\ lastErr' = FALSE
    /\ UNCHANGED <<moduleInstance, modules, mgrBuilt>>

MgrInit ==
    /\ mgrBuilt
    /\ \E e1 \in [DOMAIN moduleInstance -> BOOLEAN], e2 \in [DOMAIN moduleInstance -> BOOLEAN] :
          Ran("Init", InitCalls(e1, e2))

MgrStart ==
    /\ mgrBuilt
    /\ \E ord \in MapOrders(DOMAIN modules), errs \in [Mapped -> BOOLEAN] :
          Ran("Start", StartCalls(ord, 1, errs))

MgrStop ==
    /\ mgrBuilt
    /\ \E ord \in MapOrders(DOMAIN modules), errs \in [Mapped -> BOOLEAN] :
          Ran("Stop", StopCalls(ord, 1, errs))

\* --------------------------------------------------------------- log.go
\* InitLogger: once.Do(newLogger); ok is whether newLogger succeeds (os.MkdirAll
\* and the logger's construction). err is a local of this call.
InitLogger(ok) ==
    /\ onceDone' = TRUE
    /\ logger' = IF onceDone THEN logger ELSE IF ok THEN "set" ELSE "nil"
    /\ lastErr' = (~onceDone /\ ~ok)
    /\ lastOp' = "InitLogger"
    /\ calls' = <<>>
    /\ logs' = <<>>
    /\ UNCHANGED <<moduleInstance, modules, mgrBuilt, ops, received>>

\* log.Close: logger.Sync() unless the logger is nil
LogClose == IF logger = "nil" THEN synced ELSE synced + 1

\* ------------------------------------------- a client of the package API
InitApi ==
    /\ moduleInstance = <<>>
    /\ received = <<>>
    /\ modules = <<>>
    /\ mgrBuilt = FALSE
    /\ logger = "set"      \* the client has set the logger up first, as main does
    /\ onceDone = TRUE
    /\ lastOp = "none"
    /\ lastErr = FALSE
    /\ ops = <<>>
    /\ calls = <<>>
    /\ logs = <<>>
    /\ pc = "api"
    /\ defers = <<>>
    /\ notified = FALSE
    /\ sigChan = 0
    /\ sigSent = 0
    /\ sigTaken = FALSE
    /\ ctxDone = FALSE
    /\ synced = 0

PhaseOps == Cardinality({k \in DOMAIN ops : ops[k] # "Create"})

ApiRegister    == \E nm \in Names : RegisterModule(nm) /\ UNCHANGED logVars /\ UNCHANGED mainVars
ApiSetDisabled == \E i \in DOMAIN moduleInstance : SetDisabled(i) /\ UNCHANGED logVars /\ UNCHANGED mainVars
ApiCreate      == CreateModuleMgr /\ UNCHANGED logVars /\ UNCHANGED mainVars
ApiInit        == PhaseOps < MaxOps /\ MgrInit /\ UNCHANGED logVars /\ UNCHANGED mainVars
ApiStart       == PhaseOps < MaxOps /\ MgrStart /\ UNCHANGED logVars /\ UNCHANGED mainVars
ApiStop        == PhaseOps < MaxOps /\ MgrStop /\ UNCHANGED logVars /\ UNCHANGED mainVars

NextApi ==
    \/ ApiRegister
    \/ ApiSetDisabled
    \/ ApiCreate
    \/ ApiInit
    \/ ApiStart
    \/ ApiStop

Spec == InitApi /\ [][NextApi]_vars

\* ------------------------------------- a client that also sets weights
\* moduleInfo.weight has no writer in module.go either; the data model gives every
\* record an order weight, decided like the enabled flag before the orchestrator
\* is built.
Weights == {0, 1}

SetWeight(i, w) ==
    /\ ~mgrBuilt
    /\ i \in DOMAIN moduleInstance
    /\ moduleInstance[i].weight # w
    /\ moduleInstance' = [moduleInstance EXCEPT ![i].weight = w]
    /\ lastOp' = "SetWeight"
    /\ lastErr' = FALSE
    /\ calls' = <<>>
    /\ logs' = <<>>
    /\ UNCHANGED <<modules, mgrBuilt, ops, received>>

OrderSetWeight ==
    \E i \in DOMAIN moduleInstance, w \in Weights :
        SetWeight(i, w) /\ UNCHANGED logVars /\ UNCHANGED mainVars

NextOrder ==
    \/ ApiRegister
    \/ ApiSetDisabled
    \/ OrderSetWeight
    \/ ApiCreate
    \/ ApiInit
    \/ ApiStart

SpecOrder == InitApi /\ [][NextOrder]_vars

\* ------------------------------------------- a client of the log package
\* The logger starts unset; InitLogger may be called any number of times, between
\* registrations and CreateModuleMgr (whose log.Info lines need the logger) and
\* log.Close.
InitLogApi ==
    /\ moduleInstance = <<>>
    /\ received = <<>>
    /\ modules = <<>>
    /\ mgrBuilt = FALSE
    /\ logger = "nil"
    /\ onceDone = FALSE
    /\ lastOp = "none"
    /\ lastErr = FALSE
    /\ ops = <<>>
    /\ calls = <<>>
    /\ logs = <<>>
    /\ pc = "api"
    /\ defers = <<>>
    /\ notified = FALSE
    /\ sigChan = 0
    /\ sigSent = 0
    /\ sigTaken = FALSE
    /\ ctxDone = FALSE
    /\ synced = 0

LogInitLogger == \E ok \in BOOLEAN : InitLogger(ok) /\ UNCHANGED mainVars

\* log.Close() by the client
LogCloseCall ==
    /\ synced < MaxOps
    /\ synced' = LogClose
    /\ lastOp' = "log.Close"
    /\ lastErr' = FALSE
    /\ calls' = <<>>
    /\ logs' = <<>>
    /\ UNCHANGED <<moduleInstance, modules, mgrBuilt, ops, received>>
    /\ UNCHANGED logVars
    /\ UNCHANGED <<pc, defers, notified, sigChan, sigSent, sigTaken, ctxDone>>

NextLog ==
    \/ LogInitLogger
    \/ LogCloseCall
    \/ ApiRegister
    \/ ApiCreate

SpecLog == InitLogApi /\ [][NextLog]_vars

\* ------------------------------------------------------- the host process
\* the branches of main's select that can proceed
SelectReady == {b \in {"sig", "ctx"} : (b = "sig" => sigChan > 0) /\ (b = "ctx" => ctxDone)}

\* Faulty variant of DeferAfterStart: moduleMgr.Stop is not deferred
DeferNothing == <<>>

\* Faulty variant of DeferAfterStart: log.Close is deferred after moduleMgr.Stop,
\* so it runs before it
DeferStopThenClose == <<"mgr.Stop", "log.Close">>

\* what main defers once moduleMgr.Start has returned
DeferAfterStart == <<"mgr.Stop">>

Running == pc \notin {"exit", "panicked", "killed"}

InitMain ==
    /\ moduleInstance = <<>>
    /\ received = <<>>
    /\ modules = <<>>
    /\ mgrBuilt = FALSE
    /\ logger = "nil"
    /\ onceDone = FALSE
    /\ lastOp = "none"
    /\ lastErr = FALSE
    /\ ops = <<>>
    /\ calls = <<>>
    /\ logs = <<>>
    /\ pc = "boot"
    /\ defers = <<>>
    /\ notified = FALSE
    /\ sigChan = 0
    /\ sigSent = 0
    /\ sigTaken = FALSE
    /\ ctxDone = FALSE
    /\ synced = 0

\* package init() functions run before main: each module registers itself
BootRegister ==
    /\ pc = "boot"
    /\ \E nm \in Names : RegisterModule(nm)
    /\ UNCHANGED logVars /\ UNCHANGED mainVars

BootSetDisabled ==
    /\ pc = "boot"
    /\ \E i \in DOMAIN moduleInstance : SetDisabled(i)
    /\ UNCHANGED logVars /\ UNCHANGED mainVars

\* initLog(); defer log.Close(); ctx, cancel := ...; defer cancel()
MainInitLog ==
    /\ pc = "boot"
    /\ \E ok \in BOOLEAN : InitLogger(ok)
    /\ pc' = IF lastErr' THEN "panicked" ELSE "create"
    /\ defers' = IF lastErr' THEN defers ELSE <<"log.Close", "cancel">>
    /\ UNCHANGED <<notified, sigChan, sigSent, sigTaken, ctxDone, synced>>

MainCreate ==
    /\ pc = "create"
    /\ CreateModuleMgr
    /\ pc' = "init"
    /\ UNCHANGED logVars
    /\ UNCHANGED <<defers, notified, sigChan, sigSent, sigTaken, ctxDone, synced>>

MainInit ==
    /\ pc = "init"
    /\ MgrInit
    /\ pc' = "start"
    /\ UNCHANGED logVars
    /\ UNCHANGED <<defers, notified, sigChan, sigSent, sigTaken, ctxDone, synced>>

\* moduleMgr.Start(); defer moduleMgr.Stop()
MainStart ==
    /\ pc = "start"
    /\ MgrStart
    /\ defers' = defers \o DeferAfterStart
    /\ pc' = "notify"
    /\ UNCHANGED logVars
    /\ UNCHANGED <<notified, sigChan, sigSent, sigTaken, ctxDone, synced>>

\* sigChan := make(chan os.Signal, 1); signal.Notify(sigChan, SIGINT, SIGTERM)
MainNotify ==
    /\ pc = "notify"
    /\ notified' = TRUE
    /\ pc' = "select"
    /\ UNCHANGED modVars /\ UNCHANGED logVars
    /\ UNCHANGED <<defers, sigChan, sigSent, sigTaken, ctxDone, synced>>

\* select { case <-ctx.Done(): log.Info  case sig := <-sigChan: log.Info; cancel() }
MainSelect ==
    /\ pc = "select"
    /\ \E b \in SelectReady :
          /\ sigChan' = IF b = "sig" THEN sigChan - 1 ELSE sigChan
          /\ sigTaken' = (b = "sig")
          /\ ctxDone' = TRUE
          /\ logs' = LogInfo(IF b = "sig" THEN "signal received" ELSE "ctx cancelled", "-")
    /\ lastOp' = "select"
    /\ lastErr' = FALSE
    /\ calls' = <<>>
    /\ pc' = "return"
    /\ UNCHANGED <<moduleInstance, modules, mgrBuilt, ops, received>>
    /\ UNCHANGED logVars
    /\ UNCHANGED <<defers, notified, sigSent, synced>>

Top == defers[Len(defers)]
Pop == SubSeq(defers, 1, Len(defers) - 1)

\* main returns: the deferred calls run last in, first out
MainDeferStop ==
    /\ pc = "return" /\ defers # <<>> /\ Top = "mgr.Stop"
    /\ MgrStop
    /\ defers' = Pop
    /\ UNCHANGED logVars
    /\ UNCHANGED <<pc, notified, sigChan, sigSent, sigTaken, ctxDone, synced>>

MainDeferCancel ==
    /\ pc = "return" /\ defers # <<>> /\ Top = "cancel"
    /\ ctxDone' = TRUE
    /\ defers' = Pop
    /\ lastOp' = "cancel"
    /\ lastErr' = FALSE
    /\ calls' = <<>>
    /\ logs' = <<>>
    /\ UNCHANGED <<moduleInstance, modules, mgrBuilt, ops, received>>
    /\ UNCHANGED logVars
    /\ UNCHANGED <<pc, notified, sigChan, sigSent, sigTaken, synced>>

MainDeferClose ==
    /\ pc = "return" /\ defers # <<>> /\ Top = "log.Close"
    /\ synced' = LogClose
    /\ defers' = Pop
    /\ lastOp' = "log.Close"
    /\ lastErr' = FALSE
    /\ calls' = <<>>
    /\ logs' = <<>>
    /\ UNCHANGED <<moduleInstance, modules, mgrBuilt, ops, received>>
    /\ UNCHANGED logVars
    /\ UNCHANGED <<pc, notified, sigChan, sigSent, sigTaken, ctxDone>>

MainExit ==
    /\ pc = "return" /\ defers = <<>>
    /\ pc' = "exit"
    /\ UNCHANGED modVars /\ UNCHANGED logVars
    /\ UNCHANGED <<defers, notified, sigChan, sigSent, sigTaken, ctxDone, synced>>

\* The OS delivers SIGINT or SIGTERM. Before signal.Notify the Go runtime's default
\* applies and the program exits at once, running no deferred call; afterwards the
\* signal is sent to sigChan without blocking (dropped when the buffer is full).
Signal ==
    /\ Running
    /\ sigSent < MaxSignals
    /\ sigSent' = sigSent + 1
    /\ pc' = IF notified THEN pc ELSE "killed"
    /\ sigChan' = IF notified /\ sigChan = 0 THEN 1 ELSE sigChan
    /\ UNCHANGED modVars /\ UNCHANGED logVars
    /\ UNCHANGED <<defers, notified, sigTaken, ctxDone, synced>>

NextMain ==
    \/ BootRegister
    \/ BootSetDisabled
    \/ MainInitLog
    \/ MainCreate
    \/ MainInit
    \/ MainStart
    \/ MainNotify
    \/ MainSelect
    \/ MainDeferStop
    \/ MainDeferCancel
    \/ MainDeferClose
    \/ MainExit
    \/ Signal

SpecMain == InitMain /\ [][NextMain]_vars

\* ================================================================ claims
Phases == {"Init", "Start", "Stop"}

\* positions of calls holding a call of op on record i
At(op, i) == {k \in DOMAIN calls : calls[k].op = op /\ calls[k].inst = i}

\* the records in the map whose isDisabled flag is clear
Enabled == {i \in Mapped : ~moduleInstance[i].isDisabled}

\* C1: one call of the orchestrator's Init calls Init on every registered record
\* before it calls LoadCfg on any record: no LoadCfg call precedes an Init call,
\* and every LoadCfg call comes after the Init call of each record.
C1_InitPassBeforeLoadCfg ==
    lastOp = "Init" =>
        /\ \A j, k \in DOMAIN calls :
              (calls[j].op = "LoadCfg" /\ calls[k].op = "Init") => k < j
        /\ \A j \in DOMAIN calls : calls[j].op = "LoadCfg" =>
              \A i \in DOMAIN moduleInstance : \E k \in At("Init", i) : k < j

C1_Witness ==
    /\ lastOp = "Init"
    /\ Len(moduleInstance) >= 2
    /\ \E j \in DOMAIN calls : calls[j].op = "LoadCfg"

\* C2: Start never calls Start on a record whose isDisabled flag is set and calls it
\* once on every other record of the map; Init still calls Init and LoadCfg on a
\* disabled record and Stop still calls its Stop.
C2_DisabledSkippedAtStartOnly ==
    /\ \A i \in DOMAIN moduleInstance : moduleInstance[i].isDisabled => received[i].Start = 0
    /\ lastOp = "Start" =>
          /\ \A i \in Mapped \ Enabled : At("Start", i) = {}
          /\ \A i \in Enabled : Cardinality(At("Start", i)) = 1
    /\ lastOp = "Init" =>
          \A i \in DOMAIN moduleInstance : moduleInstance[i].isDisabled =>
              At("Init", i) # {} /\ At("LoadCfg", i) # {}
    /\ lastOp = "Stop" =>
          \A i \in Mapped : moduleInstance[i].isDisabled => At("Stop", i) # {}

C2_Witness ==
    /\ lastOp = "Start"
    /\ \E i \in Mapped \ Enabled :
          received[i].Init > 0 /\ received[i].LoadCfg > 0 /\ received[i].Start = 0
    /\ \E j \in Enabled : At("Start", j) # {}

\* C3: whichever calls of a phase return an error, every record the phase covers
\* still gets its call (Init and LoadCfg: every registered record; Start: every
\* enabled record of the map; Stop: every record of the map), also a record that
\* failed in an earlier phase, and the phase itself reports no error.
C3_FanOutDespiteErrors ==
    /\ lastOp = "Init" =>
          \A i \in DOMAIN moduleInstance : At("Init", i) # {} /\ At("LoadCfg", i) # {}
    /\ lastOp = "Start" => \A i \in Enabled : At("Start", i) # {}
    /\ lastOp = "Stop"  => \A i \in Mapped : At("Stop", i) # {}
    /\ lastOp \in Phases => ~lastErr

C3_Witness ==
    /\ lastOp = "Start"
    /\ \E k \in DOMAIN calls : calls[k].err /\ k < Len(calls)
    /\ \E i \in Enabled :
          /\ received[i].Init > 0
          /\ received[i].failed
          /\ \A k \in At("Start", i) : ~calls[k].err

\* C4: every error a module method returns is recorded: after a phase the number of
\* error-severity log lines equals the number of calls that returned an error.
C4_ErrorsRecorded ==
    (lastOp \in Phases /\ logger = "set") =>
        Cardinality({k \in DOMAIN logs : logs[k].level = "error"})
            = Cardinality({k \in DOMAIN calls : calls[k].err})

\* C5: in any sequence of orchestrator calls no record has received Start without
\* having received Init and LoadCfg before.
C5_NoStartBeforeInit ==
    \A i \in DOMAIN moduleInstance :
        received[i].Start > 0 => (received[i].Init > 0 /\ received[i].LoadCfg > 0)

\* C6: once a record has received Stop it receives no further Start.
C6_NoStartAfterStop ==
    [][\A i \in DOMAIN moduleInstance :
          received[i].Stop > 0 => received'[i].Start = received[i].Start]_vars

\* C7 as stated: main drives Create, Init, Start, Stop in this order, Stop only after
\* a signal has been received, and on every finished run that received a signal
\* Stop has been invoked exactly once.
StopCount == Cardinality({k \in DOMAIN ops : ops[k] = "Stop"})
HostOrder == <<"Create", "Init", "Start", "Stop">>
IsPrefix(s, t) == Len(s) <= Len(t) /\ \A k \in DOMAIN s : s[k] = t[k]

NamesOf(reg) == {reg[k].name : k \in DOMAIN reg}
LastOf(reg, nm) == CHOOSE k \in DOMAIN reg :
                       reg[k].name = nm /\ \A j \in DOMAIN reg : reg[j].name = nm => j <= k

C8_DuplicateNameLastWins ==
    /\ lastOp = "Create" =>
          /\ DOMAIN modules = NamesOf(moduleInstance)
          /\ \A nm \in DOMAIN modules : modules[nm] = LastOf(moduleInstance, nm)
    /\ lastOp = "Init" =>
          /\ Len(calls) = 2 * Len(moduleInstance)
          /\ \A i \in DOMAIN moduleInstance :
                Cardinality(At("Init", i)) = 1 /\ Cardinality(At("LoadCfg", i)) = 1
    /\ lastOp \in {"Start", "Stop"} =>
          /\ \A k \in DOMAIN calls : calls[k].inst \in Mapped /\ calls[k].op = lastOp
          /\ \A i \in Mapped : Cardinality(At(lastOp, i)) <= 1
    /\ mgrBuilt =>
          \A i \in DOMAIN moduleInstance \ Mapped :
              received[i].Start = 0 /\ received[i].Stop = 0

C8_Witness ==
    /\ lastOp = "Start"
    /\ \E i, j \in DOMAIN moduleInstance :
          /\ i < j
          /\ moduleInstance[i].name = moduleInstance[j].name
          /\ i \notin Mapped
          /\ j \in Mapped
          /\ received[i].Init = 1 /\ received[i].LoadCfg = 1
          /\ At("Start", j) # {}

\* C9: every record's state field follows the lifecycle: Stopped once it has received
\* Stop, else Started once it has received Start, else ConfigLoaded once it has
\* received LoadCfg, else Initialized once it has received Init, else Registered.
C9_StateFollowsLifecycle ==
    \A i \in DOMAIN moduleInstance :
        moduleInstance[i].state =
            IF received[i].Stop > 0 THEN ModuleStateStopped
            ELSE IF received[i].Start > 0 THEN ModuleStateStarted
            ELSE IF received[i].LoadCfg > 0 THEN ModuleStateCfgLoaded
            ELSE IF received[i].Init > 0 THEN ModuleStateInitialized
            ELSE ModuleStateRegistered

\* C10: Init calls Init once on each registered record in registration order, then
\* LoadCfg(false) once on each record in registration order; with no registered
\* module CreateModuleMgr, Init, Start and Stop make no module call and report no error.
C10_InitThenLoadCfgInOrder ==
    /\ lastOp = "Init" =>
          LET n == Len(moduleInstance) IN
          /\ Len(calls) = n + n
          /\ \A k \in 1..n :
                /\ calls[k].op = "Init" /\ calls[k].inst = k
                /\ calls[n + k].op = "LoadCfg" /\ calls[n + k].inst = k
                /\ calls[n + k].arg = "false"
    /\ (moduleInstance = <<>> /\ lastOp \in Phases \cup {"Create"}) =>
          (calls = <<>> /\ ~lastErr /\ modules = <<>>)

C10_Witness ==
    /\ lastOp = "Init"
    /\ Len(moduleInstance) >= 2
    /\ Len(calls) = 2 * Len(moduleInstance)

\* C11: RegisterModule appends exactly one record at the end of moduleInstance, in
\* state Registered, enabled and with weight 0; it leaves the earlier records, their
\* order, the map and every record's received calls as they were and makes no
\* module call; a name already registered is accepted like any other.
C11_RegisterAppendsFreshRecord ==
    [][lastOp' = "Register" =>
          /\ Len(moduleInstance') = Len(moduleInstance) + 1
          /\ SubSeq(moduleInstance', 1, Len(moduleInstance)) = moduleInstance
          /\ moduleInstance'[Len(moduleInstance')].state = ModuleStateRegistered
          /\ ~moduleInstance'[Len(moduleInstance')].isDisabled
          /\ moduleInstance'[Len(moduleInstance')].weight = 0
          /\ calls' = <<>>
          /\ SubSeq(received', 1, Len(received)) = received
          /\ received'[Len(received')] = NoCount
          /\ modules' = modules /\ mgrBuilt' = mgrBuilt /\ ops' = ops]_vars

C11_Witness ==
    /\ lastOp = "Register"
    /\ Len(moduleInstance) = 2
    /\ moduleInstance[1].name = moduleInstance[2].name
    /\ moduleInstance[1].isDisabled
    /\ ~moduleInstance[2].isDisabled

\* C12: CreateModuleMgr only builds the map: it makes no module call and leaves
\* moduleInstance and the received calls unchanged; afterwards no call of the
\* orchestrator's Init, Start or Stop adds, removes or replaces a map entry.
C12_BuildOnlyMapsThenReadOnly ==
    [][/\ lastOp' = "Create" =>
             /\ calls' = <<>>
             /\ moduleInstance' = moduleInstance
             /\ received' = received
       /\ lastOp' \in Phases => modules' = modules]_vars

C12_Witness ==
    /\ lastOp \in Phases
    /\ Len(ops) >= 3
    /\ Cardinality(DOMAIN modules) = 2
    /\ calls # <<>>

\* C13: during Start, of two enabled records the one with the smaller weight gets
\* its Start call first.
C13_StartFollowsWeight ==
    lastOp = "Start" =>
        \A j, k \in DOMAIN calls :
            moduleInstance[calls[j].inst].weight < moduleInstance[calls[k].inst].weight
                => j < k

\* the records registered after CreateModuleMgr: the last record registered before
\* it is always in the map, so they are the ones behind every record of the map
Late == {i \in DOMAIN moduleInstance : mgrBuilt /\ \A j \in Mapped : i > j}

\* C14: a record registered after CreateModuleMgr receives no call from this
\* orchestrator: neither Init and LoadCfg nor Start and Stop.
C14_LateRecordGetsNoCall ==
    \A i \in Late :
        /\ received[i].Init = 0 /\ received[i].LoadCfg = 0
        /\ received[i].Start = 0 /\ received[i].Stop = 0

\* the lines of logs naming the record i at the given level
LinesOf(i, level) ==
    {k \in DOMAIN logs : logs[k].name = moduleInstance[i].name /\ logs[k].level = level}

\* C15: CreateModuleMgr emits one "register module" line per record; Init, Start and
\* Stop emit for every record they call one line naming it: informational when its
\* calls succeeded, of error severity when one returned an error.
C15_ProgressLines ==
    logger = "set" =>
        /\ lastOp = "Create" =>
              /\ Len(logs) = Len(moduleInstance)
              /\ \A k \in DOMAIN logs :
                    /\ logs[k].msg = "register module"
                    /\ logs[k].name = moduleInstance[k].name
        /\ lastOp \in Phases =>
              \A k \in DOMAIN calls :
                  LinesOf(calls[k].inst, IF ErrIn(calls, calls[k].inst) THEN "error" ELSE "info")
                      # {}

\* C16: when main has run CreateModuleMgr, Init, Start and Stop, every record that
\* received Init has received Stop exactly once, a record shadowed by a later one of
\* the same name included.
C16_InitImpliesOneStop ==
    (pc \in {"return", "exit"} /\ ops = HostOrder) =>
        \A i \in DOMAIN moduleInstance : received[i].Init > 0 => received[i].Stop = 1

\* C17: in main the modules' Stop calls are made before the deferred cancel and before
\* log.Close: when moduleMgr.Stop runs both are still pending and the logger has
\* not been synced; the deferred cancel and log.Close run only after Stop.
C17_StopBeforeCancelAndClose ==
    /\ lastOp = "Stop" => (defers = <<"log.Close", "cancel">> /\ synced = 0)
    /\ "mgr.Stop" \in {defers[k] : k \in DOMAIN defers} =>
          (synced = 0 /\ StopCount = 0 /\ lastOp # "cancel")
    /\ lastOp = "cancel" => (StopCount = 1 /\ synced = 0)
    /\ synced > 0 => (StopCount = 1 /\ synced = 1 /\ defers = <<>>)

C17_Witness ==
    /\ pc = "exit"
    /\ synced = 1
    /\ StopCount = 1
    /\ \E i \in DOMAIN moduleInstance : received[i].Stop = 1

\* C18: over any sequence of InitLogger calls the logger is built at most once (a
\* call made after the first leaves it as it is), and a call that returns a nil
\* error leaves the logger set.
C18_NilErrorMeansLoggerSet ==
    [][lastOp' = "InitLogger" =>
          /\ onceDone => logger' = logger
          /\ ~lastErr' => logger' = "set"]_vars

====
